---- MODULE Spec2Model ----
(***************************************************************************)
(* petl_django: the read adapter fromdjango (a queryset as a petl table)   *)
(* and the write adapter todjango (a petl table written back as created    *)
(* and updated model instances, new ones through chunked bulk_create).     *)
(*                                                                         *)
(* The Django model is Person(id, age): `id` is the AutoField primary key, *)
(* `age` an IntegerField.  The model class also has a read-only property   *)
(* `ro`.  A table column named `nick` is neither a field nor an attribute. *)
(***************************************************************************)
EXTENDS Integers, Sequences, FiniteSets, TLC

VARIABLES
    \* ---- todjango: arguments and environment
    header,             \* the header row the table's iterator produces
    hasNext,            \* whether the table's iterator has a .next() method
    update,             \* todjango(update=...)
    use_bulk_create,    \* todjango(use_bulk_create=...)
    setting,            \* settings.BULK_CREATE_CHUNK_SIZE: <<>> when unset, else <<n>>
    db,                 \* the model's table in storage: pk -> stored record
    \* ---- todjango: locals
    table_headers,      \* line 67
    table,              \* the data rows the iterator has produced so far
    pos,                \* how many of them this run has consumed
    existing_model_map, \* line 82/84: pk -> in-memory instance
    updated_model_count,\* line 86
    unsaved_models,     \* line 87
    \* ---- _chunked_bulk_create: locals
    chunk_size,         \* the chunk_size argument: <<>> for None, else <<n>>
    i,                  \* the loop variable of line 149
    caller,             \* "todjango" or "direct"
    \* ---- control, outcome and history
    pc,
    error,              \* the exception that left the call, NoError when none
    reported,           \* the counts of lines 120-121: <<>> or <<[updated, created]>>
    log,                \* every storage write issued, in order
    handled,            \* per consumed row of this run: "update" or "create"
    startKeys,          \* the primary keys in storage when this run started
    exhausted,          \* whether the table's iterator has reported its end
    run,                \* 1 for the first todjango run, 2 for the repeat
    \* ---- fromdjango / DjangoView
    queryset,           \* the records of the queryset, in its order
    isQuerySet,         \* type(queryset) == QuerySet
    fields,             \* the fields argument: <<>> for None, else <<list>>
    out,                \* what the current iteration has yielded so far
    firstOut,           \* what the first complete iteration yielded
    rpc

vars == <<header, hasNext, update, use_bulk_create, setting, db, table_headers,
          table, pos, existing_model_map, updated_model_count, unsaved_models,
          chunk_size, i, caller, pc, error, reported, log, handled, startKeys,
          exhausted, run, queryset, isQuerySet, fields, out, firstOut, rpc>>

writeVars == <<header, hasNext, update, use_bulk_create, setting, db,
               table_headers, table, pos, existing_model_map,
               updated_model_count, unsaved_models, chunk_size, i, caller, pc,
               error, reported, log, handled, startKeys, exhausted, run>>

readVars == <<queryset, isQuerySet, fields, out, firstOut, rpc>>

(***************************************************************************)
(* Bounds of the model.                                                    *)
(***************************************************************************)
\* data rows a table holds at most
MaxRows == 3
\* instances handed to _chunked_bulk_create directly at most
MaxBatch == 3
\* largest chunk_size argument / setting tried
MaxChunk == 2
\* records a queryset holds at most
MaxRecs == 2

(***************************************************************************)
(* Python values.  Equality of Python values of different types is False,  *)
(* so a value carries its type: the int 31 and the text "31" differ.       *)
(***************************************************************************)
None == <<"none">>
IntV(n) == <<"int", n>>
StrV(n) == <<"str", n>>
\* an attribute the instance does not have
Unset == <<"unset">>

Range(s) == {s[k] : k \in DOMAIN s}

Max(S) == CHOOSE m \in S : \A n \in S : n <= m

Min2(a, b) == IF a <= b THEN a ELSE b

(***************************************************************************)
(* The model class and the table's columns.                                *)
(***************************************************************************)
\* _get_model_field_names(model): [f.name for f in model._meta.fields]
model_field_names == <<"id", "age">>

\* model._meta.pk.name
model_pk_field_name == "id"

\* model._meta.label / model_name
model_name == "person"

\* names of read-only properties of the model class
PropertyNames == {"ro"}

\* what the read-only property returns
PropValue == IntV(0)

\* the header rows tried; column names are distinct within a header
Headers == { <<"id", "age">>, <<"age">>, <<"id", "age", "nick">>,
             <<"id", "nick", "age">>, <<"id", "age", "ro">> }

ColumnValues(c) ==
    CASE c = "id"   -> {IntV(1), IntV(2)}
      [] c = "age"  -> {IntV(30), IntV(31), StrV(31)}
      [] c = "nick" -> {StrV(7)}
      [] c = "ro"   -> {IntV(1)}

AllValues == UNION {ColumnValues(c) : c \in {"id", "age", "nick", "ro"}}

\* the data rows a table with header h may hold
RowsOf(h) == {r \in [1..Len(h) -> AllValues] :
                 \A k \in 1..Len(h) : r[k] \in ColumnValues(h[k])}

\* settings.BULK_CREATE_CHUNK_SIZE fallback
BULK_CREATE_CHUNK_SIZE == 50

(***************************************************************************)
(* Storage: what the ORM does with an instance.                            *)
(***************************************************************************)
\* IntegerField.get_prep_value: what storage holds and returns for a value
ToDb(v) == IF v[1] = "str" THEN IntV(v[2]) ELSE v

\* the stored record of an instance
Stored(obj) == [age |-> ToDb(obj.age)]

\* an instance loaded from storage (model.objects.all())
Loaded(p, d) == [id |-> p, age |-> d[p].age, nick |-> Unset]

\* the key an AutoField gives a record inserted without one
AutoPk(d) == IntV(Max({p[2] : p \in DOMAIN d} \cup {0}) + 1)

Put(d, p, rec) == [q \in DOMAIN d \cup {p} |-> IF q = p THEN rec ELSE d[q]]

\* instance.save(): UPDATE when the key is stored, INSERT otherwise
SaveToDb(d, obj) ==
    IF obj.id = None THEN Put(d, AutoPk(d), Stored(obj))
    ELSE Put(d, obj.id, Stored(obj))

RECURSIVE BulkInsert(_, _, _)
\* objects.bulk_create(objs): one INSERT of all; a key already stored, or given
\* twice, fails the whole call (IntegrityError) and inserts nothing
BulkInsert(d, objs, k) ==
    IF k > Len(objs) THEN [ok |-> TRUE, db |-> d]
    ELSE IF objs[k].id # None /\ objs[k].id \in DOMAIN d
         THEN [ok |-> FALSE, db |-> d]
         ELSE BulkInsert(
                 Put(d, IF objs[k].id = None THEN AutoPk(d) ELSE objs[k].id,
                     Stored(objs[k])),
                 objs, k + 1)

(***************************************************************************)
(* Attribute access on an instance.                                        *)
(***************************************************************************)
\* getattr(instance, name): <<"ok", value>> or <<"AttributeError">>
GetAttr(obj, name) ==
    IF name \in Range(model_field_names) THEN <<"ok", obj[name]>>
    ELSE IF name \in PropertyNames THEN <<"ok", PropValue>>
    ELSE IF name \in DOMAIN obj /\ obj[name] # Unset THEN <<"ok", obj[name]>>
    ELSE <<"AttributeError">>

\* setattr(instance, name, v): a read-only property refuses, anything else is set
SetAttrOk(name) == name \notin PropertyNames

SetAttr(obj, name, v) == [obj EXCEPT ![name] = v]

(***************************************************************************)
(* todjango's helpers.                                                     *)
(***************************************************************************)
\* line 90: dict(zip(table_headers, row)), as its items in insertion order
ValueMap(h, row) == [k \in 1..Min2(Len(h), Len(row)) |-> <<h[k], row[k]>>]

\* line 91: value_map.get(model_pk_field_name, None)
PkOf(vm) ==
    IF \E k \in DOMAIN vm : vm[k][1] = model_pk_field_name
    THEN vm[CHOOSE k \in DOMAIN vm : vm[k][1] = model_pk_field_name][2]
    ELSE None

\* ExistingModelMap with the instances keyed by their position in the result
\* (dict(enumerate(existing_models, 1))) instead of by m.pk
ExistingModelMapByPosition(upd, d) ==
    IF upd
    THEN [p \in {IntV(k) : k \in 1..Cardinality(DOMAIN d)} |->
            Loaded(CHOOSE q \in DOMAIN d :
                      Cardinality({r \in DOMAIN d : r[2] <= q[2]}) = p[2], d)]
    ELSE [p \in {} |-> None]

\* lines 73-84: the instances loaded up front, by primary key
ExistingModelMap(upd, d) ==
    IF upd THEN [p \in DOMAIN d |-> Loaded(p, d)] ELSE [p \in {} |-> None]

\* line 93: update and pk in existing_model_map
IsUpdate(upd, pk, m) == upd /\ pk \in DOMAIN m

RECURSIVE WillChangeFrom(_, _, _)
\* _will_model_change: "True", "False" or "AttributeError" (from getattr)
WillChangeFrom(vm, obj, k) ==
    IF k > Len(vm) THEN "False"
    ELSE LET g == GetAttr(obj, vm[k][1]) IN
         IF g[1] # "ok" THEN "AttributeError"
         ELSE IF ~(g[2] = vm[k][2]) THEN "True"
         ELSE WillChangeFrom(vm, obj, k + 1)

\* _will_model_change reporting a change whenever every attribute can be read
WillChangeAlways(vm, obj) ==
    IF WillChangeFrom(vm, obj, 1) = "AttributeError" THEN "AttributeError" ELSE "True"

_will_model_change(vm, obj) == WillChangeFrom(vm, obj, 1)

RECURSIVE ApplyFrom(_, _, _)
\* _apply_value_map: the instance with the items set, or the item that failed
ApplyFrom(vm, obj, k) ==
    IF k > Len(vm) THEN [ok |-> TRUE, obj |-> obj, field |-> ""]
    ELSE IF ~SetAttrOk(vm[k][1])
         THEN [ok |-> FALSE, obj |-> obj, field |-> vm[k][1]]
         ELSE ApplyFrom(vm, SetAttr(obj, vm[k][1], vm[k][2]), k + 1)

_apply_value_map(vm, obj) == ApplyFrom(vm, obj, 1)

\* line 106: model(**value_map); "" when it succeeds, else the exception raised
ConstructError(vm) ==
    IF \E k \in DOMAIN vm : vm[k][1] \in PropertyNames THEN "AttributeError"
    ELSE IF \E k \in DOMAIN vm : vm[k][1] \notin Range(model_field_names)
         THEN "TypeError"
         ELSE ""

FieldOr(vm, name, dflt) ==
    IF \E k \in DOMAIN vm : vm[k][1] = name
    THEN vm[CHOOSE k \in DOMAIN vm : vm[k][1] = name][2]
    ELSE dflt

Construct(vm) == [id |-> FieldOr(vm, "id", None), age |-> FieldOr(vm, "age", None),
                  nick |-> Unset]

(***************************************************************************)
(* Exceptions and the history of storage writes.                           *)
(***************************************************************************)
NoError == [kind |-> "none", at |-> "", petl_data |-> <<>>,
            petl_chunk_data |-> <<>>, msg |-> <<>>]

Raise(kind, at) == [NoError EXCEPT !.kind = kind, !.at = at]

\* lines 99-103 and 112-114: e.petl_data = value_map; raise e
SaveFailure(at, vm) == [Raise("DatabaseError", at) EXCEPT !.petl_data = <<vm>>]

\* lines 173-175: UnableToApplyValueMapError(f'Field {k} not present in model ...')
ApplyFailure(field) ==
    [Raise("UnableToApplyValueMapError", "apply") EXCEPT !.msg = <<field, model_name>>]

SaveEntry(existing, row, obj, ok) ==
    [op |-> "save", existing |-> existing, row |-> row, objs |-> <<obj>>, ok |-> ok]

BulkEntry(objs, ok) ==
    [op |-> "bulk_create", existing |-> FALSE, row |-> 0, objs |-> objs, ok |-> ok]

\* line 104: updated_model_count += 1, reached only after a save that returned
CountAfterSave(n) == n + 1

\* CountAfterFailedSave with the increment placed before the save
CountBeforeSave(n) == n + 1

\* lines 99-103: the raise leaves line 104 unexecuted
CountAfterFailedSave(n) == n

\* lines 117-118: the bulk insert follows the loop, under use_bulk_create only
AfterLoop(bulk) == IF bulk THEN "chunker" ELSE "log"

\* AfterDefer flushing the list to storage as soon as an instance is deferred
AfterDeferFlush(n) == "chunker"

\* line 108: after the append the loop goes on to the next row
AfterDefer(n) == "loop"

\* NextStart with a step one too long: range(0, len(unsaved_models), chunk_size + 1)
NextStartSkips(start, c) == start + c + 1

\* line 149: range(0, len(unsaved_models), chunk_size)
NextStart(start, c) == start + c

\* _get_setting('BULK_CREATE_CHUNK_SIZE'): getattr(settings, name, DEFAULTS[name])
_get_setting == IF setting = <<>> THEN BULK_CREATE_CHUNK_SIZE ELSE setting[1]

\* unsaved_models[i:i + chunk_size]
ChunkSlice(list, start, c) == SubSeq(list, start + 1, Min2(start + c, Len(list)))

\* ChunkFailure attaching everything not yet inserted: unsaved_models[i:]
ChunkFailureRest(kind, list, start, c) ==
    [Raise(kind, "bulk_create") EXCEPT
        !.petl_chunk_data = <<SubSeq(list, start + 1, Len(list))>>]

\* lines 153-156: e.petl_chunk_data = chunk_data; raise e
ChunkFailure(kind, list, start, c) ==
    [Raise(kind, "bulk_create") EXCEPT
        !.petl_chunk_data = <<ChunkSlice(list, start, c)>>]

\* line 76: the assertion todjango makes before it loads the instances
PkAssertion == model_pk_field_name \in Range(model_field_names)

(***************************************************************************)
(* Initial states.                                                         *)
(***************************************************************************)
InitDbs == {[p \in S |-> [age |-> IntV(30)]] : S \in SUBSET {IntV(1), IntV(2)}}

EmptyMap == [p \in {} |-> None]

WriteIdle ==
    /\ header = <<>> /\ hasNext = TRUE /\ update = TRUE /\ use_bulk_create = TRUE
    /\ setting = <<>> /\ db = EmptyMap /\ table_headers = <<>> /\ table = <<>>
    /\ pos = 0 /\ existing_model_map = EmptyMap /\ updated_model_count = 0
    /\ unsaved_models = <<>> /\ chunk_size = <<>> /\ i = 0 /\ caller = ""
    /\ pc = "idle" /\ error = NoError /\ reported = <<>> /\ log = <<>>
    /\ handled = <<>> /\ startKeys = {} /\ exhausted = FALSE /\ run = 1

ReadIdle ==
    /\ queryset = <<>> /\ isQuerySet = TRUE /\ fields = <<>> /\ out = <<>>
    /\ firstOut = <<>> /\ rpc = "idle"

\* a call todjango(table, model, update, create, use_bulk_create)
Init ==
    /\ header \in Headers
    /\ hasNext \in BOOLEAN
    /\ update \in BOOLEAN
    /\ use_bulk_create \in BOOLEAN
    /\ setting \in {<<>>, <<1>>}
    /\ db \in InitDbs
    /\ table_headers = <<>> /\ table = <<>> /\ pos = 0
    /\ existing_model_map = EmptyMap /\ updated_model_count = 0
    /\ unsaved_models = <<>> /\ chunk_size = <<>> /\ i = 0
    /\ caller = "todjango" /\ pc = "start" /\ error = NoError
    /\ reported = <<>> /\ log = <<>> /\ handled = <<>> /\ startKeys = {}
    /\ exhausted = FALSE /\ run = 1
    /\ ReadIdle

(***************************************************************************)
(* todjango, lines 58-121.                                                 *)
(***************************************************************************)
\* lines 66-67: table_iterator.next()
ReadHeader ==
    /\ pc = "start" /\ hasNext
    /\ table_headers' = header
    /\ pc' = "setup"
    /\ UNCHANGED <<header, hasNext, update, use_bulk_create, setting, db, table,
                   pos, existing_model_map, updated_model_count, unsaved_models,
                   chunk_size, i, caller, error, reported, log, handled,
                   startKeys, run, exhausted>>
    /\ UNCHANGED readVars

\* line 67 on an iterator that only has __next__
ReadHeaderFails ==
    /\ pc = "start" /\ ~hasNext
    /\ pc' = "error"
    /\ error' = Raise("AttributeError", "next")
    /\ UNCHANGED <<header, hasNext, update, use_bulk_create, setting, db,
                   table_headers, table, pos, existing_model_map,
                   updated_model_count, unsaved_models, chunk_size, i, caller,
                   reported, log, handled, startKeys, run, exhausted>>
    /\ UNCHANGED readVars

\* lines 69-87
Setup ==
    /\ pc = "setup"
    /\ startKeys' = DOMAIN db
    /\ IF update /\ ~PkAssertion
       THEN /\ pc' = "error"
            /\ error' = Raise("AssertionError", "setup")
            /\ UNCHANGED <<existing_model_map, updated_model_count, unsaved_models>>
       ELSE /\ existing_model_map' = ExistingModelMap(update, db)
            /\ updated_model_count' = 0
            /\ unsaved_models' = <<>>
            /\ pc' = "loop"
            /\ UNCHANGED error
    /\ UNCHANGED <<header, hasNext, update, use_bulk_create, setting, db,
                   table_headers, table, pos, chunk_size, i, caller, reported,
                   log, handled, run, exhausted>>
    /\ UNCHANGED readVars

\* the rows the iterator may produce next: any row on the first run, the same
\* rows again on the repeat
NextRows ==
    IF run = 1
    THEN IF Len(table) < MaxRows THEN RowsOf(header) ELSE {}
    ELSE IF pos < Len(table) THEN {table[pos + 1]} ELSE {}

\* line 89: the iterator hands over one row
Consume(row) ==
    /\ pc = "loop"
    /\ row \in NextRows
    /\ pos' = pos + 1
    /\ table' = IF run = 1 THEN Append(table, row) ELSE table
    /\ UNCHANGED <<header, hasNext, update, use_bulk_create, setting,
                   table_headers, chunk_size, i, caller, reported, startKeys, run, exhausted>>
    /\ UNCHANGED readVars

\* lines 93-95: a matching instance that already holds the row's values
UpdateUnchanged ==
    \E row \in NextRows :
      LET vm == ValueMap(table_headers, row)
          pk == PkOf(vm) IN
      /\ Consume(row)
      /\ IsUpdate(update, pk, existing_model_map)
      /\ _will_model_change(vm, existing_model_map[pk]) = "False"
      /\ handled' = Append(handled, "update")
      /\ UNCHANGED <<db, existing_model_map, updated_model_count,
                     unsaved_models, pc, error, log>>

\* line 95: getattr of a name the instance does not have
UpdateGetattrFails ==
    \E row \in NextRows :
      LET vm == ValueMap(table_headers, row)
          pk == PkOf(vm) IN
      /\ Consume(row)
      /\ IsUpdate(update, pk, existing_model_map)
      /\ _will_model_change(vm, existing_model_map[pk]) = "AttributeError"
      /\ handled' = Append(handled, "update")
      /\ pc' = "error"
      /\ error' = Raise("AttributeError", "_will_model_change")
      /\ UNCHANGED <<db, existing_model_map, updated_model_count,
                     unsaved_models, log>>

\* lines 96, 168-175: setattr refuses
UpdateApplyFails ==
    \E row \in NextRows :
      LET vm == ValueMap(table_headers, row)
          pk == PkOf(vm) IN
      /\ Consume(row)
      /\ IsUpdate(update, pk, existing_model_map)
      /\ _will_model_change(vm, existing_model_map[pk]) = "True"
      /\ LET a == _apply_value_map(vm, existing_model_map[pk]) IN
         /\ ~a.ok
         /\ existing_model_map' = [existing_model_map EXCEPT ![pk] = a.obj]
         /\ error' = ApplyFailure(a.field)
      /\ handled' = Append(handled, "update")
      /\ pc' = "error"
      /\ UNCHANGED <<db, updated_model_count, unsaved_models, log>>

\* lines 96-98, 104: the changed instance is saved
UpdateSaved ==
    \E row \in NextRows :
      LET vm == ValueMap(table_headers, row)
          pk == PkOf(vm) IN
      /\ Consume(row)
      /\ IsUpdate(update, pk, existing_model_map)
      /\ _will_model_change(vm, existing_model_map[pk]) = "True"
      /\ LET a == _apply_value_map(vm, existing_model_map[pk]) IN
         /\ a.ok
         /\ existing_model_map' = [existing_model_map EXCEPT ![pk] = a.obj]
         /\ db' = SaveToDb(db, a.obj)
         /\ log' = Append(log, SaveEntry(TRUE, pos + 1, a.obj, TRUE))
      /\ updated_model_count' = CountAfterSave(updated_model_count)
      /\ handled' = Append(handled, "update")
      /\ UNCHANGED <<unsaved_models, pc, error>>

\* lines 96-103: the save of the changed instance raises
UpdateSaveFails ==
    \E row \in NextRows :
      LET vm == ValueMap(table_headers, row)
          pk == PkOf(vm) IN
      /\ Consume(row)
      /\ IsUpdate(update, pk, existing_model_map)
      /\ _will_model_change(vm, existing_model_map[pk]) = "True"
      /\ LET a == _apply_value_map(vm, existing_model_map[pk]) IN
         /\ a.ok
         /\ existing_model_map' = [existing_model_map EXCEPT ![pk] = a.obj]
         /\ log' = Append(log, SaveEntry(TRUE, pos + 1, a.obj, FALSE))
      /\ error' = SaveFailure("update_save", vm)
      /\ updated_model_count' = CountAfterFailedSave(updated_model_count)
      /\ handled' = Append(handled, "update")
      /\ pc' = "error"
      /\ UNCHANGED <<db, unsaved_models>>

\* line 106: model(**value_map) raises
CreateConstructFails ==
    \E row \in NextRows :
      LET vm == ValueMap(table_headers, row)
          pk == PkOf(vm) IN
      /\ Consume(row)
      /\ ~IsUpdate(update, pk, existing_model_map)
      /\ ConstructError(vm) # ""
      /\ handled' = Append(handled, "create")
      /\ pc' = "error"
      /\ error' = Raise(ConstructError(vm), "construct")
      /\ UNCHANGED <<db, existing_model_map, updated_model_count,
                     unsaved_models, log>>

\* lines 106-108: the new instance is kept for the bulk insert
CreateDeferred ==
    \E row \in NextRows :
      LET vm == ValueMap(table_headers, row)
          pk == PkOf(vm) IN
      /\ Consume(row)
      /\ ~IsUpdate(update, pk, existing_model_map)
      /\ ConstructError(vm) = ""
      /\ use_bulk_create
      /\ unsaved_models' = Append(unsaved_models, Construct(vm))
      /\ handled' = Append(handled, "create")
      /\ pc' = AfterDefer(Len(unsaved_models) + 1)
      /\ UNCHANGED <<db, existing_model_map, updated_model_count, error, log>>

\* lines 106, 110-111: the new instance is saved at once
CreateSaved ==
    \E row \in NextRows :
      LET vm == ValueMap(table_headers, row)
          pk == PkOf(vm) IN
      /\ Consume(row)
      /\ ~IsUpdate(update, pk, existing_model_map)
      /\ ConstructError(vm) = ""
      /\ ~use_bulk_create
      /\ db' = SaveToDb(db, Construct(vm))
      /\ log' = Append(log, SaveEntry(FALSE, pos + 1, Construct(vm), TRUE))
      /\ handled' = Append(handled, "create")
      /\ UNCHANGED <<existing_model_map, updated_model_count, unsaved_models,
                     pc, error>>

\* lines 110-114: the save of the new instance raises
CreateSaveFails ==
    \E row \in NextRows :
      LET vm == ValueMap(table_headers, row)
          pk == PkOf(vm) IN
      /\ Consume(row)
      /\ ~IsUpdate(update, pk, existing_model_map)
      /\ ConstructError(vm) = ""
      /\ ~use_bulk_create
      /\ log' = Append(log, SaveEntry(FALSE, pos + 1, Construct(vm), FALSE))
      /\ error' = SaveFailure("create_save", vm)
      /\ handled' = Append(handled, "create")
      /\ pc' = "error"
      /\ UNCHANGED <<db, existing_model_map, updated_model_count, unsaved_models>>

\* whether the iterator is exhausted: a first run's table may end after any
\* row, the repeat's table ends where the first one did
TableEnds == run = 1 \/ pos = Len(table)

\* lines 116-118: the loop is over
EndOfTable ==
    /\ pc = "loop" /\ TableEnds
    /\ exhausted' = TRUE
    /\ pc' = AfterLoop(use_bulk_create)
    /\ chunk_size' = <<>>
    /\ caller' = "todjango"
    /\ UNCHANGED <<header, hasNext, update, use_bulk_create, setting, db,
                   table_headers, table, pos, existing_model_map,
                   updated_model_count, unsaved_models, i, error, reported,
                   log, handled, startKeys, run>>
    /\ UNCHANGED readVars

\* lines 120-121
LogCounts ==
    /\ pc = "log"
    /\ reported' = <<[updated |-> updated_model_count,
                      created |-> Len(unsaved_models)]>>
    /\ pc' = "done"
    /\ UNCHANGED <<header, hasNext, update, use_bulk_create, setting, db,
                   table_headers, table, pos, existing_model_map,
                   updated_model_count, unsaved_models, chunk_size, i, caller,
                   error, log, handled, startKeys, run, exhausted>>
    /\ UNCHANGED readVars

\* the caller runs todjango again on the same table, with the same arguments
Rerun ==
    /\ pc = "done" /\ run = 1
    /\ run' = 2
    /\ pc' = "start"
    /\ table_headers' = <<>> /\ pos' = 0
    /\ existing_model_map' = EmptyMap /\ updated_model_count' = 0
    /\ unsaved_models' = <<>> /\ chunk_size' = <<>> /\ i' = 0
    /\ reported' = <<>> /\ log' = <<>> /\ handled' = <<>> /\ exhausted' = FALSE
    /\ UNCHANGED <<header, hasNext, update, use_bulk_create, setting, db, table,
                   caller, error, startKeys>>
    /\ UNCHANGED readVars

(***************************************************************************)
(* _chunked_bulk_create, lines 144-156.                                    *)
(***************************************************************************)
\* lines 147-148
ChunkerEntry ==
    /\ pc = "chunker"
    /\ chunk_size' = IF chunk_size = <<>> THEN <<_get_setting>> ELSE chunk_size
    /\ i' = 0
    /\ pc' = "chunk_loop"
    /\ UNCHANGED <<header, hasNext, update, use_bulk_create, setting, db,
                   table_headers, table, pos, existing_model_map,
                   updated_model_count, unsaved_models, caller, error,
                   reported, log, handled, startKeys, run, exhausted>>
    /\ UNCHANGED readVars

\* lines 149-152: one bulk_create call that succeeds
ChunkCall ==
    /\ pc = "chunk_loop" /\ i < Len(unsaved_models)
    /\ LET slice == ChunkSlice(unsaved_models, i, chunk_size[1])
           r == BulkInsert(db, slice, 1) IN
       /\ r.ok
       /\ db' = r.db
       /\ log' = Append(log, BulkEntry(slice, TRUE))
    /\ i' = NextStart(i, chunk_size[1])
    /\ UNCHANGED <<header, hasNext, update, use_bulk_create, setting,
                   table_headers, table, pos, existing_model_map,
                   updated_model_count, unsaved_models, chunk_size, caller, pc,
                   error, reported, handled, startKeys, run, exhausted>>
    /\ UNCHANGED readVars

\* lines 149-156: one bulk_create call that raises (a key conflict, or storage
\* failing for a reason of its own)
ChunkCallFails ==
    /\ pc = "chunk_loop" /\ i < Len(unsaved_models)
    /\ LET slice == ChunkSlice(unsaved_models, i, chunk_size[1])
           r == BulkInsert(db, slice, 1) IN
       /\ log' = Append(log, BulkEntry(slice, FALSE))
       /\ error' = ChunkFailure(IF r.ok THEN "DatabaseError" ELSE "IntegrityError",
                                unsaved_models, i, chunk_size[1])
    /\ pc' = "error"
    /\ UNCHANGED <<header, hasNext, update, use_bulk_create, setting, db,
                   table_headers, table, pos, existing_model_map,
                   updated_model_count, unsaved_models, chunk_size, i, caller,
                   reported, handled, startKeys, run, exhausted>>
    /\ UNCHANGED readVars

\* line 149: the range is exhausted and the function returns
ChunkerReturn ==
    /\ pc = "chunk_loop" /\ i >= Len(unsaved_models)
    /\ pc' = IF caller = "todjango" THEN "log" ELSE "returned"
    /\ UNCHANGED <<header, hasNext, update, use_bulk_create, setting, db,
                   table_headers, table, pos, existing_model_map,
                   updated_model_count, unsaved_models, chunk_size, i, caller,
                   error, reported, log, handled, startKeys, run, exhausted>>
    /\ UNCHANGED readVars

ChunkerNext == ChunkerEntry \/ ChunkCall \/ ChunkCallFails \/ ChunkerReturn

Next ==
    \/ ReadHeader \/ ReadHeaderFails \/ Setup
    \/ UpdateUnchanged \/ UpdateGetattrFails \/ UpdateApplyFails
    \/ UpdateSaved \/ UpdateSaveFails
    \/ CreateConstructFails \/ CreateDeferred \/ CreateSaved \/ CreateSaveFails
    \/ EndOfTable \/ LogCounts \/ Rerun
    \/ ChunkerEntry \/ ChunkCall \/ ChunkCallFails \/ ChunkerReturn

Spec == Init /\ [][Next]_vars

(***************************************************************************)
(* _chunked_bulk_create called on its own.                                 *)
(***************************************************************************)
\* the unsaved instances a caller may hand over
BatchObjs == {[id |-> p, age |-> IntV(30), nick |-> Unset] :
                 p \in {None, IntV(1), IntV(2)}}

Batches == UNION {[1..n -> BatchObjs] : n \in 0..MaxBatch}

\* a call _chunked_bulk_create(model, unsaved_models, chunk_size)
InitChunk ==
    /\ unsaved_models \in Batches
    /\ chunk_size \in {<<>>} \cup {<<n>> : n \in 1..MaxChunk}
    /\ setting \in {<<>>} \cup {<<n>> : n \in 1..MaxChunk}
    /\ db \in InitDbs
    /\ header = <<>> /\ hasNext = TRUE /\ update = TRUE /\ use_bulk_create = TRUE
    /\ table_headers = <<>> /\ table = <<>> /\ pos = 0
    /\ existing_model_map = EmptyMap /\ updated_model_count = 0
    /\ i = 0 /\ caller = "direct" /\ pc = "chunker" /\ error = NoError
    /\ reported = <<>> /\ log = <<>> /\ handled = <<>> /\ startKeys = DOMAIN db
    /\ exhausted = FALSE /\ run = 1
    /\ ReadIdle

SpecChunk == InitChunk /\ [][ChunkerNext]_vars

(***************************************************************************)
(* fromdjango, DjangoView and _iter_django_model, lines 20-47.             *)
(***************************************************************************)
\* the records a queryset may hold
Records == {[id |-> IntV(p), age |-> a] : p \in 1..3, a \in {IntV(30), IntV(31)}}

Querysets == {q \in UNION {[1..n -> Records] : n \in 0..MaxRecs} :
                 \A j, k \in DOMAIN q : q[j].id = q[k].id => j = k}

\* the lists of field names passed as `fields`
FieldLists == {<<>>, <<"id">>, <<"age">>, <<"id", "age">>, <<"age", "id">>}

\* lines 41-44: the header row
ColumnNames(f) == IF f = <<>> THEN model_field_names ELSE f[1]

\* line 46: queryset.all().values_list(*column_names); values_list() without
\* names selects every field of the model, in declaration order
ValuesList(q, names) ==
    LET cols == IF names = <<>> THEN model_field_names ELSE names IN
    [k \in 1..Len(q) |-> [j \in 1..Len(cols) |-> q[k][cols[j]]]]

InitRead ==
    /\ queryset \in Querysets
    /\ isQuerySet \in BOOLEAN
    /\ fields \in {<<>>} \cup {<<f>> : f \in FieldLists}
    /\ out = <<>> /\ firstOut = <<>> /\ rpc = "call"
    /\ WriteIdle

\* lines 20-25: the view is built
FromDjango ==
    /\ rpc = "call" /\ isQuerySet
    /\ rpc' = "view"
    /\ UNCHANGED <<queryset, isQuerySet, fields, out, firstOut>>
    /\ UNCHANGED writeVars

\* line 21: the assertion on the queryset argument
FromDjangoRejects ==
    /\ rpc = "call" /\ ~isQuerySet
    /\ rpc' = "assertion_error"
    /\ UNCHANGED <<queryset, isQuerySet, fields, out, firstOut>>
    /\ UNCHANGED writeVars

\* lines 36-45: iter(view) up to the first yield
IterHeader ==
    /\ rpc = "view"
    /\ out' = <<ColumnNames(fields)>>
    /\ rpc' = "rows"
    /\ UNCHANGED <<queryset, isQuerySet, fields, firstOut>>
    /\ UNCHANGED writeVars

\* lines 46-47: the next record of the queryset
IterRow ==
    /\ rpc = "rows" /\ Len(out) - 1 < Len(queryset)
    /\ out' = Append(out, ValuesList(queryset, ColumnNames(fields))[Len(out)])
    /\ UNCHANGED <<queryset, isQuerySet, fields, firstOut, rpc>>
    /\ UNCHANGED writeVars

\* the generator is exhausted; the view can be iterated again
IterEnd ==
    /\ rpc = "rows" /\ Len(out) - 1 >= Len(queryset)
    /\ IF firstOut = <<>>
       THEN firstOut' = <<out>> /\ rpc' = "view"
       ELSE firstOut' = firstOut /\ rpc' = "done"
    /\ UNCHANGED <<queryset, isQuerySet, fields, out>>
    /\ UNCHANGED writeVars

ReadNext == FromDjango \/ FromDjangoRejects \/ IterHeader \/ IterRow \/ IterEnd

SpecRead == InitRead /\ [][ReadNext]_vars

(***************************************************************************)
(* What the claims speak of, read off the state.                           *)
(***************************************************************************)
\* the primary-key value of the k-th data row
RowPk(k) == PkOf(ValueMap(table_headers, table[k]))

\* the bulk_create calls issued so far, in order
Calls == SelectSeq(log, LAMBDA e : e.op = "bulk_create")

\* the saves of existing instances that returned
ExistingSaves == SelectSeq(log, LAMBDA e : e.op = "save" /\ e.existing /\ e.ok)

RECURSIVE Inserted(_, _)
\* how many instances the first n bulk_create calls inserted
Inserted(calls, n) ==
    IF n = 0 THEN 0
    ELSE Inserted(calls, n - 1) + (IF calls[n].ok THEN Len(calls[n].objs) ELSE 0)

\* the k-th chunk of a list cut into chunks of c
Chunk(list, k, c) == SubSeq(list, (k - 1) * c + 1, Min2(k * c, Len(list)))

\* the columns of the header that are not fields of the model
NonFields == {c \in Range(table_headers) : c \notin Range(model_field_names)}

\* rows that share a primary key are equal, and every age is an int
StableTable ==
    /\ \A j, k \in DOMAIN table :
          RowPk(j) = RowPk(k) /\ RowPk(j) # None => table[j] = table[k]
    /\ \A k \in DOMAIN table : \A c \in DOMAIN table[k] : table[k][c][1] # "str"

C2_SecondRunUpdatesNothing == (run = 2 /\ update) => updated_model_count = 0

\* C2 amended: on the repeat of a run with update=True no existing instance is
\* saved, when the rows sharing a primary key are equal and every value is one
\* storage returns unchanged.
C2_SecondRunUpdatesNothingOnStableTable ==
    (run = 2 /\ update /\ StableTable) => updated_model_count = 0

\* a completed repeat that met an instance the first run had to write
C2_Witness ==
    /\ run = 2 /\ update /\ StableTable /\ pc = "done"
    /\ \E k \in DOMAIN handled :
          handled[k] = "update" /\ FieldOr(ValueMap(table_headers, table[k]),
                                           "age", None) = IntV(31)

\* C4: a run that completes reports as Updated the number of existing instances
\* it saved and as Created the number of new records it persisted.
C4_ReportedCountsAreAccurate ==
    pc = "done" =>
        /\ reported[1].updated = Len(ExistingSaves)
        /\ reported[1].created = Cardinality(DOMAIN db) - Cardinality(startKeys)

\* C6: under update=True a row that matches an existing instance and has a
\* column that is no field of the model ends the run with
\* UnableToApplyValueMapError naming the column and the model, nothing saved.
C6_UnknownColumnRaisesApplyError ==
    \A k \in DOMAIN handled :
        (update /\ handled[k] = "update" /\ NonFields # {}) =>
            /\ pc = "error" /\ k = pos
            /\ error.kind = "UnableToApplyValueMapError"
            /\ error.msg \in {<<c, model_name>> : c \in NonFields}
            /\ \A n \in DOMAIN log : ~(log[n].row = k /\ log[n].ok)

\* C8: when a save raises, the exception carries the value map of the row in
\* hand, and that row is not counted as updated.
C8_SaveFailureCarriesRow ==
    (pc = "error" /\ error.at \in {"update_save", "create_save"}) =>
        /\ error.petl_data = <<ValueMap(table_headers, table[pos])>>
        /\ updated_model_count = Len(ExistingSaves)
        /\ \A n \in DOMAIN ExistingSaves : ExistingSaves[n].row # pos

\* the save of the second changed instance raises after the first was saved
C8_Witness ==
    /\ pc = "error" /\ error.at = "update_save"
    /\ pos = 2 /\ updated_model_count = 1

\* C9: under update=True a table whose header lacks the primary-key column is
\* rejected by an assertion before anything is loaded, saved or deferred.
C9_MissingPkColumnIsRejected ==
    (/\ update
     /\ pc \notin {"start", "setup"} /\ error.at # "next"
     /\ model_pk_field_name \notin Range(header)) =>
        /\ pc = "error" /\ error.kind = "AssertionError"
        /\ existing_model_map = EmptyMap /\ log = <<>> /\ unsaved_models = <<>>

\* C10: under use_bulk_create=True no bulk_create call is issued before the
\* table is exhausted; when the save of a changed instance raises, the updates
\* saved before it are in storage as saved, no further row is handled, and no
\* deferred instance has been or will be inserted.
C10_BulkInsertOnlyAfterLastRow ==
    /\ Calls # <<>> => exhausted /\ use_bulk_create
    /\ (use_bulk_create /\ pc = "error" /\ error.at = "update_save") =>
          /\ Calls = <<>>
          /\ ~exhausted /\ Len(handled) = pos
          /\ DOMAIN db = startKeys
          /\ \A n \in DOMAIN ExistingSaves :
                LET o == ExistingSaves[n].objs[1] IN
                \/ db[o.id] = Stored(o)
                \/ \E m \in DOMAIN ExistingSaves :
                      m > n /\ ExistingSaves[m].objs[1].id = o.id

\* an update was saved, an instance was deferred, then a save raised
C10_Witness ==
    /\ use_bulk_create /\ pc = "error" /\ error.at = "update_save"
    /\ updated_model_count >= 1 /\ Len(unsaved_models) >= 1

(***************************************************************************)
(* _chunked_bulk_create                                                    *)
(***************************************************************************)
\* C3: N instances and chunk size C give ceil(N/C) bulk_create calls, the k-th
\* with the k-th contiguous chunk of at most C instances, so that every instance
\* is inserted once and in order.
C3_ChunksCoverListInOrder ==
    /\ pc \in {"chunk_loop", "returned", "error"} =>
          \A k \in DOMAIN Calls :
              /\ Calls[k].objs = Chunk(unsaved_models, k, chunk_size[1])
              /\ Len(Calls[k].objs) \in 1..chunk_size[1]
    /\ pc = "returned" =>
          /\ Len(Calls) = (Len(unsaved_models) + chunk_size[1] - 1) \div chunk_size[1]
          /\ \A k \in DOMAIN Calls : Calls[k].ok
          /\ Inserted(Calls, Len(Calls)) = Len(unsaved_models)
          /\ Cardinality(DOMAIN db) = Cardinality(startKeys) + Len(unsaved_models)

\* three instances in chunks of two: two calls, the second with one instance
C3_Witness ==
    /\ pc = "returned" /\ Len(unsaved_models) = 3 /\ chunk_size = <<2>>
    /\ Len(Calls) = 2

\* C7: when the bulk_create call for chunk k raises, the exception carries
\* chunk k, the chunks before it are in storage, and no call follows.
C7_ChunkFailureCarriesChunk ==
    /\ \A k \in DOMAIN Calls : k < Len(Calls) => Calls[k].ok
    /\ (pc = "error" /\ error.at = "bulk_create") =>
          LET k == Len(Calls) IN
          /\ k >= 1 /\ ~Calls[k].ok
          /\ error.petl_chunk_data = <<Chunk(unsaved_models, k, chunk_size[1])>>
          /\ error.petl_chunk_data = <<Calls[k].objs>>
          /\ Cardinality(DOMAIN db) =
                Cardinality(startKeys) + Inserted(Calls, k - 1)
          /\ Inserted(Calls, k - 1) = (k - 1) * chunk_size[1]

\* the second of two chunks raises, with instances left over after it
C7_Witness ==
    /\ pc = "error" /\ error.at = "bulk_create"
    /\ Len(Calls) = 2 /\ chunk_size = <<1>> /\ Len(unsaved_models) = 3

(***************************************************************************)
(* fromdjango                                                              *)
(***************************************************************************)
\* the table C5 describes: the header, then per record the header's fields
ExpectedTable ==
    LET h == IF fields = <<>> THEN model_field_names ELSE fields[1] IN
    <<h>> \o [k \in 1..Len(queryset) |-> [j \in 1..Len(h) |-> queryset[k][h[j]]]]

\* C5: iterating the view yields the header (the fields given, or all field
\* names of the model), then one row per record in queryset order holding the
\* header's fields in header order; a second iteration yields the same.
C5_ViewYieldsHeaderThenRows ==
    /\ firstOut # <<>> => firstOut[1] = ExpectedTable
    /\ rpc = "done" => out = firstOut[1]

====
